---- MODULE Spec2Model ----
(***************************************************************************)
(* Dark Phoenix: the command state (dark-phoenix-core), the deterrence     *)
(* suite and the fire-suppression controller, as state machines.           *)
(*                                                                         *)
(* Each component has its own specification over the shared variables:    *)
(*   SpecDrone  DroneState's public operations (escalate_threat,           *)
(*              log_event, is_critical) from any DroneState value;         *)
(*   SpecFire   FireSuppressionSystem's operations and its auto-stop       *)
(*              timer tasks;                                               *)
(*   SpecDeter  DeterrenceSuite's operations.                              *)
(* Time is counted in whole seconds.                                       *)
(***************************************************************************)
EXTENDS Integers, Sequences, FiniteSets, TLC

VARIABLES
    now,            \* Utc::now(), in seconds
    uuid,           \* number of Uuid::new_v4() values handed out
    call,           \* the last operation called, its arguments and its result
    drone,          \* DroneState
    max_passed,     \* history: max of the initial level and every level passed to escalate_threat
    fire,           \* FireSuppressionSystem.state
    event_history,  \* FireSuppressionSystem.event_history
    valve_open,     \* the extinguisher valve (actuator)
    nozzle_hw,      \* the nozzle actuator's last command
    timers,         \* auto-stop tasks spawned and not yet run
    commands,       \* the commands the last fire-suppression call gave the actuators, in order
    deter,          \* DeterrenceSuite.state
    siren_hw,       \* the siren actuator: volume it was last driven at (0 = off)
    strobe_hw,      \* the strobe actuator's pattern
    voice_hw,       \* the voice actuator: last utterance and its volume
    overflow_checks,\* the build: whether u8 arithmetic overflow panics (it wraps otherwise)
    panicked,       \* a deterrence call has panicked
    deter_before,   \* history: DeterrenceSuite.state as the last deterrence call found it
    activate_calls, \* history: number of DeterrenceSuite::activate calls made
    pc,             \* DarkPhoenixCore: where each task stands
    lock,           \* DarkPhoenixCore.state's RwLock: its holders and its queue of waiters
    steps_left,     \* history: steps of the current protection cycle still to run
    risk_config,    \* FireSuppressionSystem.config: the configuration the system was built with
    threat_history  \* UltraSeekerEngine.threat_history

vars == <<now, uuid, call, drone, max_passed, fire, event_history, valve_open,
          nozzle_hw, timers, commands, deter, siren_hw, strobe_hw, voice_hw, overflow_checks,
          panicked, deter_before, activate_calls, pc, lock, steps_left, risk_config,
          threat_history>>

droneVars == <<drone, max_passed>>
fireVars  == <<fire, event_history, valve_open, nozzle_hw, timers, commands>>
deterVars == <<deter, siren_hw, strobe_hw, voice_hw, overflow_checks, panicked, deter_before,
               activate_calls>>
coreVars  == <<pc, lock, steps_left>>
riskVars  == <<risk_config>>
detectorVars == <<threat_history>>

----------------------------------------------------------------------------
(* Bounds of the exploration *)

\* SpecDrone: seconds explored, length of the mission log
MaxDroneTime == 1
MaxLog == 2
\* SpecFire: seconds explored, length of the event history
MaxFireTime == 2
MaxFireEvents == 2
MaxCallTime == 3
MaxCallEvents == 3
MaxFireLogCalls == 102
MaxAnalyses == 1002
\* SpecDeter: seconds explored, activate calls
MaxDeterTime == 4
MaxDeterActivations == 3
\* SpecCore: emergency_landing calls
MaxLandings == 1

\* Option<T>: None is the empty sequence, Some(x) is <<x>>.
None == <<>>
Some(x) == <<x>>

Max(a, b) == IF a >= b THEN a ELSE b

\* One call record shape for every operation.
Call(op, level, text, flag, result) ==
    [op |-> op, level |-> level, text |-> text, flag |-> flag, result |-> result]

NoCall == Call("new", 0, "", FALSE, "Ok")

----------------------------------------------------------------------------
(* dark-phoenix-core: ThreatLevel *)

Green == 0
Yellow == 1
Orange == 2
Red == 3
Omega == 4

ThreatLevel == Green .. Omega

as_str(l) ==
    CASE l = Green -> "GREEN"
      [] l = Yellow -> "YELLOW"
      [] l = Orange -> "ORANGE"
      [] l = Red -> "RED"
      [] l = Omega -> "OMEGA"

description(l) ==
    CASE l = Green -> "All systems nominal. Guardian mode active."
      [] l = Yellow -> "Anomaly detected. Heightened awareness engaged."
      [] l = Orange -> "Moderate threat identified. Defensive protocols online."
      [] l = Red -> "High threat confirmed. All deterrence systems activated."
      [] l = Omega -> "Critical threat. Dark Phoenix rising. Maximum protection authorized."

EventType == {"ThreatDetected", "TerrenceActivated", "PoliceContacted", "ShieldDeployed",
              "FireSuppressed", "MedicalAidDeployed", "HackingAttempt", "SystemMalfunction",
              "MissionComplete", "PhoenixRising"}

(* dark-phoenix-core: DroneState *)

\* DroneState::new, with the fields the operations read or write.
DroneState_new ==
    [threat_level |-> Green,
     battery_level |-> 100,
     shield_integrity |-> 100,
     communication_status |-> TRUE,
     mission_log |-> <<>>,
     last_update |-> 0]

\* log_event putting the new event first.
log_event_prepend(s, event_type, descr, response_actions, t, id) ==
    LET event == [id |-> id,
                  timestamp |-> t,
                  event_type |-> event_type,
                  description |-> descr,
                  threat_level |-> s.threat_level,
                  response_actions |-> response_actions]
    IN [s EXCEPT !.mission_log = <<event>> \o @, !.last_update = t]

\* DroneState::log_event at time t, the new event getting id.
log_event(s, event_type, descr, response_actions, t, id) ==
    LET event == [id |-> id,
                  timestamp |-> t,
                  event_type |-> event_type,
                  description |-> descr,
                  threat_level |-> s.threat_level,
                  response_actions |-> response_actions]
    IN [s EXCEPT !.mission_log = Append(@, event), !.last_update = t]

\* format!("Threat level escalated to {}: {}", new_level.as_str(), reason)
EscalationText(new_level, reason) ==
    <<"Threat level escalated to ", as_str(new_level), ": ", reason>>

\* escalate_threat comparing with /= : a lower level would be taken too.
escalate_threat_ne(s, new_level, reason, t, id) ==
    IF new_level # s.threat_level
    THEN log_event([s EXCEPT !.threat_level = new_level], "ThreatDetected",
                   EscalationText(new_level, reason),
                   <<<<"Threat assessment: ", description(new_level)>>>>, t, id)
    ELSE s

\* escalate_threat comparing with >= : the current level again is logged again.
escalate_threat_ge(s, new_level, reason, t, id) ==
    IF new_level >= s.threat_level
    THEN log_event([s EXCEPT !.threat_level = new_level], "ThreatDetected",
                   EscalationText(new_level, reason),
                   <<<<"Threat assessment: ", description(new_level)>>>>, t, id)
    ELSE s

\* escalate_threat logging before it assigns: the event records the old level.
escalate_threat_log_first(s, new_level, reason, t, id) ==
    IF new_level > s.threat_level
    THEN [log_event(s, "ThreatDetected", EscalationText(new_level, reason),
                    <<<<"Threat assessment: ", description(new_level)>>>>, t, id)
          EXCEPT !.threat_level = new_level]
    ELSE s

\* DroneState::escalate_threat
escalate_threat(s, new_level, reason, t, id) ==
    IF new_level > s.threat_level
    THEN log_event([s EXCEPT !.threat_level = new_level],
                   "ThreatDetected",
                   EscalationText(new_level, reason),
                   <<<<"Threat assessment: ", description(new_level)>>>>,
                   t, id)
    ELSE s

\* is_critical with the battery test off by one (<= 20).
is_critical_le(s) ==
    \/ s.threat_level >= Red
    \/ s.battery_level <= 20
    \/ ~s.communication_status
    \/ s.shield_integrity < 50

\* DroneState::is_critical
is_critical(s) ==
    \/ s.threat_level >= Red
    \/ s.battery_level < 20
    \/ ~s.communication_status
    \/ s.shield_integrity < 50

----------------------------------------------------------------------------
(* SpecDrone: DroneState's operations, from any DroneState value.  The      *)
(* fields are public and the type deserializes, so every combination of    *)
(* level, battery, shield and communication status is a DroneState.        *)

BatteryLevels == {19, 20, 100}
ShieldLevels == {49, 50, 100}
Reasons == {"Critical battery level detected", "weapon"}
LoggedTypes == {"PhoenixRising", "SystemMalfunction"}

DroneTick ==
    /\ now < MaxDroneTime
    /\ now' = now + 1
    /\ call' = Call("tick", 0, "", FALSE, "Ok")
    /\ UNCHANGED <<uuid, droneVars, fireVars, deterVars, coreVars, riskVars, detectorVars>>

\* state.escalate_threat(new_level, reason)
EscalateThreat(new_level, reason) ==
    /\ drone' = escalate_threat(drone, new_level, reason, now, uuid + 1)
    /\ Len(drone'.mission_log) <= MaxLog
    /\ uuid' = uuid + (Len(drone'.mission_log) - Len(drone.mission_log))
    /\ max_passed' = Max(max_passed, new_level)
    /\ call' = Call("escalate_threat", new_level, reason, FALSE, "Ok")
    /\ UNCHANGED <<now, fireVars, deterVars, coreVars, riskVars, detectorVars>>

\* state.log_event(event_type, description, response_actions)
LogEvent(event_type) ==
    /\ Len(drone.mission_log) < MaxLog
    /\ drone' = log_event(drone, event_type, <<event_type>>, <<>>, now, uuid + 1)
    /\ uuid' = uuid + 1
    /\ call' = Call("log_event", 0, event_type, FALSE, "Ok")
    /\ UNCHANGED <<now, max_passed, fireVars, deterVars, coreVars, riskVars, detectorVars>>

\* state.is_critical()
IsCritical ==
    /\ call' = Call("is_critical", 0, "", is_critical(drone), "Ok")
    /\ UNCHANGED <<now, uuid, droneVars, fireVars, deterVars, coreVars, riskVars, detectorVars>>

----------------------------------------------------------------------------
(* dark-phoenix-core, main.rs: DarkPhoenixCore.  Its DroneState sits behind a  *)
(* tokio RwLock; the tasks are the one running ignite's loop, the callers of   *)
(* get_status and the callers of emergency_landing.                            *)

Scheduler == "ignite"
StatusCallers == {"status1", "status2"}
LandingCallers == {"landing1"}
Tasks == {Scheduler} \cup StatusCallers \cup LandingCallers

\* The tasks that take the lock with write(): ignite's loop and emergency_landing.
Writers == {Scheduler} \cup LandingCallers

\* RwLock::new: nobody holds the lock, nobody waits for it.
RwLock_new == [holders |-> {}, waiters |-> <<>>]

\* read().await / write().await, not yet granted: the task joins the queue.
RwLock_request(l, t) == [l EXCEPT !.waiters = Append(@, t)]

\* readers ignoring a writer that holds the lock.
RwLock_ready_shared_always(l, t) ==
    /\ l.waiters # <<>>
    /\ Head(l.waiters) = t
    /\ t \in Writers => l.holders = {}

\* The lock is granted in the order of the requests: to the first waiter, a
\* writer once nobody holds the lock, a reader once no writer holds it.
RwLock_ready(l, t) ==
    /\ l.waiters # <<>>
    /\ Head(l.waiters) = t
    /\ IF t \in Writers THEN l.holders = {} ELSE l.holders \cap Writers = {}

RwLock_acquire(l, t) == [holders |-> l.holders \cup {t}, waiters |-> Tail(l.waiters)]

\* a guard that is never dropped.
RwLock_release_leaked(l, t) == l

\* The guard is dropped.
RwLock_release(l, t) == [l EXCEPT !.holders = @ \ {t}]

\* u8::saturating_sub
saturating_sub(a, b) == IF a >= b THEN a - b ELSE 0

\* update_system_health decrementing with neither test nor saturation: u8 wraps.
DarkPhoenixCore_update_system_health_wrapping(s, t, id) ==
    LET decayed == [s EXCEPT !.battery_level = (@ + 255) % 256]
    IN IF decayed.battery_level < 20 /\ decayed.threat_level < Orange
       THEN escalate_threat(decayed, Orange, "Critical battery level detected", t, id)
       ELSE decayed

\* update_system_health that only lets the battery decay.
DarkPhoenixCore_update_system_health_decay_only(s, t, id) ==
    IF s.battery_level > 0
    THEN [s EXCEPT !.battery_level = saturating_sub(@, 1)]
    ELSE s

\* update_system_health escalating one percent late (battery below 19).
DarkPhoenixCore_update_system_health_late(s, t, id) ==
    LET decayed == IF s.battery_level > 0
                   THEN [s EXCEPT !.battery_level = saturating_sub(@, 1)]
                   ELSE s
    IN IF decayed.battery_level < 19 /\ decayed.threat_level < Orange
       THEN escalate_threat(decayed, Orange, "Critical battery level detected", t, id)
       ELSE decayed

\* DarkPhoenixCore::update_system_health
DarkPhoenixCore_update_system_health(s, t, id) ==
    LET decayed == IF s.battery_level > 0
                   THEN [s EXCEPT !.battery_level = saturating_sub(@, 1)]
                   ELSE s
    IN IF decayed.battery_level < 20 /\ decayed.threat_level < Orange
       THEN escalate_threat(decayed, Orange, "Critical battery level detected", t, id)
       ELSE decayed

\* threat-detection: the level of ThreatDetector::generate_assessment at time t,
\* Yellow in the first SimulationWindow seconds of every SimulationPeriod.
SimulationPeriod == 300
SimulationWindow == 5
generate_assessment(t) == IF t % SimulationPeriod < SimulationWindow THEN Yellow ELSE Green

\* DarkPhoenixCore::assess_threats: no call to the detector, no write.
assess_threats(s) == s

\* DarkPhoenixCore::coordinate_response: every arm only logs.
coordinate_response(s) == s

\* DroneState::mythic_status: what a status report shows of the state.
mythic_status(s) ==
    <<as_str(s.threat_level), s.battery_level, s.shield_integrity, description(s.threat_level)>>

\* The event ignite logs before its loop.
awaken(s, t, id) ==
    log_event(s, "PhoenixRising",
              <<"Dark Phoenix has awakened. Guardian protocols active.">>,
              <<"All systems online", "Protection mode engaged">>, t, id)

\* DarkPhoenixCore::emergency_landing, under its write guard.
emergency_landing(s, t, id) ==
    log_event(s, "SystemMalfunction", <<"Emergency landing initiated">>,
              <<"All systems shutting down safely">>, t, id)

----------------------------------------------------------------------------
(* SpecCore: DarkPhoenixCore's tasks.  A task's position:                     *)
(*   the scheduler   ignite, awaken_wait, awaken, loop, cycle_wait,            *)
(*                   update_system_health, assess_threats,                     *)
(*                   coordinate_response, sleep                                *)
(*   a caller        idle, status_wait, get_status, landing_wait,              *)
(*                   emergency_landing                                         *)
(* The *_wait positions are a read().await or write().await not yet granted.   *)

WaitingAt == {"awaken_wait", "cycle_wait", "status_wait", "landing_wait"}

\* a protection cycle that starts at its second step.
Granted_past_health(p) ==
    CASE p = "awaken_wait" -> "awaken"
      [] p = "cycle_wait" -> "assess_threats"
      [] p = "status_wait" -> "get_status"
      [] p = "landing_wait" -> "emergency_landing"

\* Where a task stands once its read() or write() has returned.
Granted(p) ==
    CASE p = "awaken_wait" -> "awaken"
      [] p = "cycle_wait" -> "update_system_health"
      [] p = "status_wait" -> "get_status"
      [] p = "landing_wait" -> "emergency_landing"

Range(seq) == {seq[i] : i \in DOMAIN seq}

\* emergency_landing calls so far, granted or not
Landings ==
    Cardinality({i \in DOMAIN drone.mission_log :
                    drone.mission_log[i].event_type = "SystemMalfunction"})
    + Cardinality({e \in LandingCallers : pc[e] # "idle"})

\* a loop that calls protection_cycle on every tick, the last call returned or not.
cycle_due_every_tick(p) ==
    p \in {"loop", "sleep", "update_system_health", "assess_threats", "coordinate_response"}

\* ignite's loop calls protection_cycle once the call before it has returned
\* and the sleep after it is over.
cycle_due(p) == p = "loop"

\* The variables after a step of task t that left the DroneState as s.
CoreReturns(t, s, position, op, level, flag) ==
    /\ drone' = s
    /\ uuid' = uuid + (Len(s.mission_log) - Len(drone.mission_log))
    /\ max_passed' = Max(max_passed, s.threat_level)
    /\ pc' = [pc EXCEPT ![t] = position]
    /\ call' = Call(op, level, t, flag, "Ok")
    /\ UNCHANGED <<now, fireVars, deterVars, riskVars, detectorVars>>

\* ignite: self.state.write().await
Ignite ==
    /\ pc[Scheduler] = "ignite"
    /\ lock' = RwLock_request(lock, Scheduler)
    /\ CoreReturns(Scheduler, drone, "awaken_wait", "ignite", 0, FALSE)
    /\ UNCHANGED steps_left

\* A read() or write() returns its guard.
Acquire(t) ==
    /\ pc[t] \in WaitingAt
    /\ RwLock_ready(lock, t)
    /\ lock' = RwLock_acquire(lock, t)
    /\ steps_left' = IF pc[t] = "cycle_wait" THEN 3 ELSE steps_left
    /\ CoreReturns(t, drone, Granted(pc[t]), "acquire", 0, FALSE)

\* ignite: the awakening is logged and the guard dropped.
Awaken ==
    /\ pc[Scheduler] = "awaken"
    /\ lock' = RwLock_release(lock, Scheduler)
    /\ CoreReturns(Scheduler, awaken(drone, now, uuid + 1), "loop", "awaken", 0, FALSE)
    /\ UNCHANGED steps_left

\* protection_cycle: self.state.write().await
ProtectionCycle ==
    /\ cycle_due(pc[Scheduler])
    /\ lock' = RwLock_request(lock, Scheduler)
    /\ CoreReturns(Scheduler, drone, "cycle_wait", "protection_cycle", 0, FALSE)
    /\ UNCHANGED steps_left

UpdateSystemHealth ==
    /\ pc[Scheduler] = "update_system_health"
    /\ steps_left' = steps_left - 1
    /\ CoreReturns(Scheduler, DarkPhoenixCore_update_system_health(drone, now, uuid + 1),
                   "assess_threats", "update_system_health", 0, FALSE)
    /\ UNCHANGED lock

\* assess_threats; call.level is the level the detector assesses at this time.
AssessThreats ==
    /\ pc[Scheduler] = "assess_threats"
    /\ steps_left' = steps_left - 1
    /\ CoreReturns(Scheduler, assess_threats(drone), "coordinate_response",
                   "assess_threats", generate_assessment(now), FALSE)
    /\ UNCHANGED lock

\* coordinate_response, then protection_cycle returns and its guard is dropped.
CoordinateResponse ==
    /\ pc[Scheduler] = "coordinate_response"
    /\ steps_left' = steps_left - 1
    /\ lock' = RwLock_release(lock, Scheduler)
    /\ CoreReturns(Scheduler, coordinate_response(drone), "sleep",
                   "coordinate_response", 0, FALSE)

\* sleep(Duration::from_millis(100)) is over.
SleepOver ==
    /\ pc[Scheduler] = "sleep"
    /\ CoreReturns(Scheduler, drone, "loop", "sleep", 0, FALSE)
    /\ UNCHANGED <<lock, steps_left>>

\* get_status: self.state.read().await
GetStatusCall(r) ==
    /\ pc[r] = "idle"
    /\ lock' = RwLock_request(lock, r)
    /\ CoreReturns(r, drone, "status_wait", "get_status_call", 0, FALSE)
    /\ UNCHANGED steps_left

\* get_status: the report is made and the guard dropped.  call.level is the
\* level reported, call.flag whether a protection cycle was part-way.
GetStatus(r) ==
    /\ pc[r] = "get_status"
    /\ lock' = RwLock_release(lock, r)
    /\ CoreReturns(r, drone, "idle", "get_status", drone.threat_level,
                   steps_left \in {1, 2})
    /\ UNCHANGED steps_left

\* emergency_landing: self.state.write().await
EmergencyLandingCall(e) ==
    /\ pc[e] = "idle"
    /\ Landings < MaxLandings
    /\ lock' = RwLock_request(lock, e)
    /\ CoreReturns(e, drone, "landing_wait", "emergency_landing_call", 0, FALSE)
    /\ UNCHANGED steps_left

\* emergency_landing: the event is logged and the guard dropped.
EmergencyLanding(e) ==
    /\ pc[e] = "emergency_landing"
    /\ lock' = RwLock_release(lock, e)
    /\ CoreReturns(e, emergency_landing(drone, now, uuid + 1), "idle",
                   "emergency_landing", 0, FALSE)
    /\ UNCHANGED steps_left

----------------------------------------------------------------------------
(* fire-suppression: configuration *)

\* FireSuppressionConfig::default with the two periods shortened
\* (max_discharge_duration 10 -> 1 s, cooldown_period 30 -> 2 s), so that a
\* cooldown and a discharge both end within the seconds explored.
FireSuppressionConfig_default ==
    [auto_activation_temp |-> 60,
     max_discharge_duration |-> 1,
     cooldown_period |-> 2,
     allow_manual_override |-> TRUE,
     min_pressure |-> 100]

\* self.config: the configuration given to FireSuppressionSystem::new.
config == risk_config

\* tokio::time::sleep(Duration::from_secs(2)) in stop_discharge
RetractDelay == 2

\* log_fire_event: more than EventCap events drops the EventDrain oldest
EventCap == 100
EventDrain == 10

NozzlePosition == {"Retracted", "Deployed", "Targeting", "Emergency"}
SystemHealth == {"Optimal", "Degraded", "Critical", "Offline"}
FireSeverity == {"Low", "Medium", "High", "Critical"}

\* FireSuppressionState::default.  Temperatures are whole degrees Celsius,
\* smoke_level is in hundredths (0..100 for 0.0..1.0), pressure in PSI,
\* capacity in percent.
FireSuppressionState_default ==
    [system_armed |-> TRUE,
     extinguisher_pressure |-> 150,
     extinguisher_capacity |-> 100,
     nozzle_position |-> "Retracted",
     current_temperature |-> 20,
     smoke_level |-> 0,
     last_activation |-> None,
     total_activations |-> 0,
     system_health |-> "Optimal",
     discharge_active |-> FALSE,
     manual_override_active |-> FALSE]

\* The fire-suppression system with its collaborators, as one value:
\*   state, events: FireSuppressionSystem.state and .event_history
\*   valve, nozzle: the actuators;  timers: spawned auto-stop tasks
\*   clock: Utc::now();  ids: Uuids handed out;  result: the call's Result
\*   commands: the actuator commands of the call so far
FireSystem(st, ev, valve, nozzle, tm, clock, ids) ==
    [state |-> st, events |-> ev, valve |-> valve, nozzle |-> nozzle,
     timers |-> tm, clock |-> clock, ids |-> ids, result |-> "Ok", commands |-> <<>>]

\* the risk score with the smoke weighted 0.8 instead of 0.4.
risk_score_under_smoke_heavy(cfg, st) ==
    LET temp_factor_x600 == IF st.current_temperature > cfg.auto_activation_temp
                            THEN 12 * (st.current_temperature - 20)
                            ELSE 0
    IN temp_factor_x600 + 8 * st.smoke_level

\* risk_score of assess_fire_risk, in thousandths:
\*   temp_factor * 0.6 = (t - 20) / 50 * 0.6 = 0.012 * (t - 20)
\*   smoke_factor * 0.4 = smoke / 100 * 0.4 = 0.004 * smoke
risk_score_under(cfg, st) ==
    LET temp_factor_x600 == IF st.current_temperature > cfg.auto_activation_temp
                            THEN 12 * (st.current_temperature - 20)
                            ELSE 0
    IN temp_factor_x600 + 4 * st.smoke_level

\* the bands with the Critical one starting above 0.8.
severity_above(score) ==
    IF score > 800 THEN "Critical"
    ELSE IF score >= 600 THEN "High"
    ELSE IF score >= 300 THEN "Medium"
    ELSE "Low"

\* The severity bands of assess_fire_risk, the score in thousandths.
severity(score) ==
    IF score >= 800 THEN "Critical"
    ELSE IF score >= 600 THEN "High"
    ELSE IF score >= 300 THEN "Medium"
    ELSE "Low"

\* FireSuppressionSystem::assess_fire_risk of a system configured with cfg
assess_fire_risk_under(cfg, st) == severity(risk_score_under(cfg, st))

\* The risk score and the severity under the configuration `config`.
risk_score(st) == risk_score_under(config, st)

\* FireSuppressionSystem::assess_fire_risk
assess_fire_risk(st) == assess_fire_risk_under(config, st)

\* FireSuppressionSystem::is_system_ready
is_system_ready(st) ==
    /\ st.system_armed
    /\ st.extinguisher_pressure >= config.min_pressure
    /\ st.extinguisher_capacity > 5
    /\ st.system_health # "Offline"

\* FireSuppressionSystem::update_system_health
update_system_health(st) ==
    [st EXCEPT !.system_health =
        IF st.extinguisher_pressure < config.min_pressure THEN "Critical"
        ELSE IF st.extinguisher_capacity < 20 THEN "Degraded"
        ELSE "Optimal"]

\* a drain of the n newest entries.
Drain_newest(seq, n) == SubSeq(seq, 1, Len(seq) - n)

\* Vec::drain(0..n)
Drain(seq, n) == SubSeq(seq, n + 1, Len(seq))

\* FireSuppressionSystem::log_fire_event
log_fire_event(sys, event_type, descr) ==
    LET event == [id |-> sys.ids + 1,
                  timestamp |-> sys.clock,
                  event_type |-> event_type,
                  temperature |-> sys.state.current_temperature,
                  smoke_level |-> sys.state.smoke_level,
                  severity |-> assess_fire_risk(sys.state),
                  response_actions |-> <<descr>>]
        pushed == Append(sys.events, event)
    IN [sys EXCEPT !.ids = @ + 1,
                   !.events = IF Len(pushed) > EventCap THEN Drain(pushed, EventDrain)
                              ELSE pushed]

\* prepare_for_suppression deploying whatever the nozzle position.
prepare_for_suppression_always(sys) ==
    log_fire_event([sys EXCEPT !.nozzle = "deploy",
                               !.commands = Append(@, "nozzle.deploy"),
                               !.state.nozzle_position = "Deployed"],
                   "SystemActivated",
                   "Fire suppression system prepared for activation")

\* FireSuppressionSystem::prepare_for_suppression
prepare_for_suppression(sys) ==
    IF sys.state.nozzle_position = "Retracted"
    THEN log_fire_event([sys EXCEPT !.nozzle = "deploy",
                                    !.commands = Append(@, "nozzle.deploy"),
                                    !.state.nozzle_position = "Deployed"],
                        "SystemActivated",
                        "Fire suppression system prepared for activation")
    ELSE sys

\* The cooldown test of activate_suppression: the call is skipped.
InCooldown(sys, emergency) ==
    /\ ~emergency
    /\ ~sys.state.manual_override_active
    /\ sys.state.last_activation # None
    /\ sys.clock - sys.state.last_activation[1] < config.cooldown_period

\* the activation targeting the fire in an emergency too.
Discharge_targeting_always(sys, emergency) ==
    LET positioned == IF FALSE
                      THEN [sys EXCEPT !.nozzle = "emergency_deploy",
                                       !.commands = Append(@, "nozzle.emergency_deploy"),
                                       !.state.nozzle_position = "Emergency"]
                      ELSE [sys EXCEPT !.nozzle = "target_fire",
                                       !.commands = Append(@, "nozzle.target_fire"),
                                       !.state.nozzle_position = "Targeting"]
        opened == [positioned EXCEPT !.valve = TRUE,
                                     !.commands = Append(@, "valve.open"),
                                     !.state.discharge_active = TRUE,
                                     !.state.last_activation = Some(sys.clock),
                                     !.state.total_activations = @ + 1]
        logged == log_fire_event(opened, "SystemActivated",
                                 IF emergency THEN "EMERGENCY fire suppression activated"
                                 ELSE "STANDARD fire suppression activated")
    IN [logged EXCEPT !.timers = @ \cup {[id |-> logged.state.total_activations,
                                          due |-> sys.clock + config.max_discharge_duration]}]

\* activate_suppression past its two gates: nozzle, valve, state, event, timer.
Discharge(sys, emergency) ==
    LET positioned == IF emergency
                      THEN [sys EXCEPT !.nozzle = "emergency_deploy",
                                       !.commands = Append(@, "nozzle.emergency_deploy"),
                                       !.state.nozzle_position = "Emergency"]
                      ELSE [sys EXCEPT !.nozzle = "target_fire",
                                       !.commands = Append(@, "nozzle.target_fire"),
                                       !.state.nozzle_position = "Targeting"]
        opened == [positioned EXCEPT !.valve = TRUE,
                                     !.commands = Append(@, "valve.open"),
                                     !.state.discharge_active = TRUE,
                                     !.state.last_activation = Some(sys.clock),
                                     !.state.total_activations = @ + 1]
        logged == log_fire_event(opened, "SystemActivated",
                                 IF emergency THEN "EMERGENCY fire suppression activated"
                                 ELSE "STANDARD fire suppression activated")
    IN [logged EXCEPT !.timers = @ \cup {[id |-> logged.state.total_activations,
                                          due |-> sys.clock + config.max_discharge_duration]}]

\* activate_suppression without the cooldown gate.
activate_suppression_no_cooldown(sys, emergency) ==
    IF ~is_system_ready(sys.state) THEN [sys EXCEPT !.result = "Err"]
    ELSE Discharge(sys, emergency)

\* activate_suppression whose cooldown gate does not look at `emergency`.
activate_suppression_cooldown_always(sys, emergency) ==
    IF InCooldown(sys, FALSE) THEN sys
    ELSE IF ~is_system_ready(sys.state) THEN [sys EXCEPT !.result = "Err"]
    ELSE Discharge(sys, emergency)

\* activate_suppression counting the activation before the readiness gate.
activate_suppression_count_first(sys, emergency) ==
    IF InCooldown(sys, emergency) THEN sys
    ELSE IF ~is_system_ready(sys.state)
         THEN [sys EXCEPT !.result = "Err", !.state.total_activations = @ + 1]
    ELSE Discharge(sys, emergency)

\* FireSuppressionSystem::activate_suppression
activate_suppression(sys, emergency) ==
    IF InCooldown(sys, emergency) THEN sys
    ELSE IF ~is_system_ready(sys.state) THEN [sys EXCEPT !.result = "Err"]
    ELSE Discharge(sys, emergency)

\* manual_activate that does not set the override flag.
manual_activate_no_override(sys) ==
    LET activated == activate_suppression(sys, FALSE)
    IN IF activated.result = "Err" THEN activated
       ELSE log_fire_event(activated, "ManualOverride",
                           "Manual fire suppression override activated")

\* FireSuppressionSystem::manual_activate
manual_activate(sys) ==
    LET overridden == [sys EXCEPT !.state.manual_override_active = TRUE]
        activated == activate_suppression(overridden, FALSE)
    IN IF activated.result = "Err" THEN activated
       ELSE log_fire_event(activated, "ManualOverride",
                           "Manual fire suppression override activated")

\* stop_discharge retracting the nozzle before it closes the valve.
stop_discharge_retract_first(sys) ==
    IF sys.state.discharge_active
    THEN LET retracted == [sys EXCEPT !.clock = @ + RetractDelay,
                                      !.nozzle = "retract",
                                      !.commands = Append(@, "nozzle.retract"),
                                      !.state.nozzle_position = "Retracted"]
             closed == [retracted EXCEPT !.valve = FALSE,
                                         !.commands = Append(@, "valve.close"),
                                         !.state.discharge_active = FALSE,
                                         !.state.manual_override_active = FALSE]
         IN log_fire_event(closed, "FireSuppressed",
                           "Fire suppression discharge stopped")
    ELSE sys

\* stop_discharge that leaves the nozzle where it is.
stop_discharge_nozzle_left(sys) ==
    IF sys.state.discharge_active
    THEN LET closed == [sys EXCEPT !.valve = FALSE,
                                   !.commands = Append(@, "valve.close"),
                                   !.state.discharge_active = FALSE,
                                   !.state.manual_override_active = FALSE]
             waited == [closed EXCEPT !.clock = @ + RetractDelay]
         IN log_fire_event(waited, "FireSuppressed",
                           "Fire suppression discharge stopped")
    ELSE sys

\* stop_discharge cancelling the auto-stop tasks.
stop_discharge_cancels_timers(sys) ==
    IF sys.state.discharge_active
    THEN LET closed == [sys EXCEPT !.valve = FALSE,
                                   !.commands = Append(@, "valve.close"),
                                   !.timers = {},
                                   !.state.discharge_active = FALSE,
                                   !.state.manual_override_active = FALSE]
             retracted == [closed EXCEPT !.clock = @ + RetractDelay,
                                         !.nozzle = "retract",
                                         !.commands = Append(@, "nozzle.retract"),
                                         !.state.nozzle_position = "Retracted"]
         IN log_fire_event(retracted, "FireSuppressed",
                           "Fire suppression discharge stopped")
    ELSE sys

\* FireSuppressionSystem::stop_discharge
stop_discharge(sys) ==
    IF sys.state.discharge_active
    THEN LET closed == [sys EXCEPT !.valve = FALSE,
                                   !.commands = Append(@, "valve.close"),
                                   !.state.discharge_active = FALSE,
                                   !.state.manual_override_active = FALSE]
             retracted == [closed EXCEPT !.clock = @ + RetractDelay,
                                         !.nozzle = "retract",
                                         !.commands = Append(@, "nozzle.retract"),
                                         !.state.nozzle_position = "Retracted"]
         IN log_fire_event(retracted, "FireSuppressed",
                           "Fire suppression discharge stopped")
    ELSE sys

\* The Result of a sensor read: Ok(v) is <<v>>, an Err is <<>>.
Ok(v) == <<v>>
SensorUnavailable == <<>>

\* FireSuppressionSystem::update_sensors, the three reads returning temp, smoke
\* and pressure.  Each read is followed by `?`: the first Err is returned at
\* once, after the assignments of the reads before it.
update_sensors(sys, temp, smoke, pressure) ==
    IF temp = SensorUnavailable THEN [sys EXCEPT !.result = "Err"]
    ELSE LET s1 == [sys EXCEPT !.state.current_temperature = temp[1]]
         IN IF smoke = SensorUnavailable THEN [s1 EXCEPT !.result = "Err"]
            ELSE LET s2 == [s1 EXCEPT !.state.smoke_level = smoke[1]]
                 IN IF pressure = SensorUnavailable THEN [s2 EXCEPT !.result = "Err"]
                    ELSE [s2 EXCEPT !.state = update_system_health(
                                        [@ EXCEPT !.extinguisher_pressure = pressure[1]])]

\* FireSuppressionSystem::monitor_and_respond
monitor_and_respond(sys, temp, smoke, pressure) ==
    LET sensed == update_sensors(sys, temp, smoke, pressure)
        fire_risk == assess_fire_risk(sensed.state)
    IN IF sensed.result = "Err" THEN sensed
       ELSE CASE fire_risk = "Low" -> IF sensed.state.discharge_active
                                      THEN stop_discharge(sensed) ELSE sensed
              [] fire_risk = "Medium" -> prepare_for_suppression(sensed)
              [] fire_risk = "High" -> activate_suppression(sensed, FALSE)
              [] fire_risk = "Critical" -> activate_suppression(sensed, TRUE)

\* The task spawned by activate_suppression, once its sleep is over:
\* valve.close() on its clone of the valve handle.
auto_stop(sys, timer) ==
    [sys EXCEPT !.valve = FALSE, !.commands = Append(@, "valve.close"), !.timers = @ \ {timer}]

----------------------------------------------------------------------------
(* SpecFire: the fire-suppression system.  The sensors are collaborators:  *)
(* a reading is any value of the sets below (risk Low at 20 C / 0.0 smoke,  *)
(* Medium at 20 / 0.9, High at 72 / 0.0, Critical at 72 / 0.9).  No code    *)
(* writes system_armed or extinguisher_capacity, and only update_sensors   *)
(* writes system_health: the initial state is the default one, or the      *)
(* default one with one of these three fields failing the readiness gate.  *)
(* A read returns Result<f32, _>.  The sensors of SpecFire always return   *)
(* Ok, as the ones in the source do; those of SpecFireFaulty may fail.     *)

Temperatures == {20, 72}
SmokeLevels == {0, 90}
Pressures == {50, 150}

\* What a read of a sensor may return.
Readings(values) == {Ok(v) : v \in values} \cup {SensorUnavailable}

InitialFireStates ==
    {FireSuppressionState_default,
     [FireSuppressionState_default EXCEPT !.system_armed = FALSE],
     [FireSuppressionState_default EXCEPT !.extinguisher_capacity = 5],
     [FireSuppressionState_default EXCEPT !.system_health = "Offline"]}

TheFireSystem == FireSystem(fire, event_history, valve_open, nozzle_hw, timers, now, uuid)

\* The variables after a fire-suppression call that left the system as `sys`.
FireBecomes(sys, op, flag) ==
    /\ fire' = sys.state
    /\ event_history' = sys.events
    /\ valve_open' = sys.valve
    /\ nozzle_hw' = sys.nozzle
    /\ timers' = sys.timers
    /\ now' = sys.clock
    /\ uuid' = sys.ids
    /\ commands' = sys.commands
    /\ call' = Call(op, 0, "", flag, sys.result)
    /\ UNCHANGED <<droneVars, deterVars, coreVars, riskVars, detectorVars>>

\* A fire-suppression call returns, within the seconds and events explored.
FireReturns(sys, op, flag) ==
    /\ sys.clock <= MaxFireTime
    /\ Len(sys.events) <= MaxFireEvents
    /\ FireBecomes(sys, op, flag)

\* A second passes.  An auto-stop task whose sleep is over runs before the next
\* second does.
FireTick ==
    /\ now < MaxFireTime
    /\ \A tm \in timers : tm.due > now
    /\ now' = now + 1
    /\ call' = Call("tick", 0, "", FALSE, "Ok")
    /\ UNCHANGED <<uuid, droneVars, fireVars, deterVars, coreVars, riskVars, detectorVars>>

\* monitor_and_respond(); call.flag is whether one of the reads failed.
MonitorAndRespond(temp, smoke, pressure) ==
    FireReturns(monitor_and_respond(TheFireSystem, temp, smoke, pressure),
                "monitor_and_respond", SensorUnavailable \in {temp, smoke, pressure})

ActivateSuppression(emergency) ==
    FireReturns(activate_suppression(TheFireSystem, emergency),
                "activate_suppression", emergency)

ManualActivate ==
    FireReturns(manual_activate(TheFireSystem), "manual_activate", FALSE)

StopDischarge ==
    FireReturns(stop_discharge(TheFireSystem), "stop_discharge", FALSE)

\* An auto-stop task runs once its sleep of max_discharge_duration is over.
AutoStop(timer) ==
    /\ now >= timer.due
    /\ FireReturns(auto_stop(TheFireSystem, timer), "auto_stop", FALSE)

----------------------------------------------------------------------------
(* SpecFireCalls: the public activation methods called directly by an       *)
(* operator, with no sensor polling, over one more event than SpecFire, on   *)
(* a system built with any of the configurations below.                      *)

\* The configurations given to FireSuppressionSystem::new: the default one, one
\* that does not allow the manual override, and one whose discharge, like the
\* default's 10 s, lasts longer than the 2 s stop_discharge takes.
FireConfigs ==
    {FireSuppressionConfig_default,
     [FireSuppressionConfig_default EXCEPT !.allow_manual_override = FALSE],
     [FireSuppressionConfig_default EXCEPT !.max_discharge_duration = 3]}

\* A direct call returns, within the seconds and events explored.
DirectReturns(sys, op, flag) ==
    /\ sys.clock <= MaxCallTime
    /\ Len(sys.events) <= MaxCallEvents
    /\ FireBecomes(sys, op, flag)

DirectTick ==
    /\ now < MaxCallTime
    /\ \A tm \in timers : tm.due > now
    /\ now' = now + 1
    /\ call' = Call("tick", 0, "", FALSE, "Ok")
    /\ UNCHANGED <<uuid, droneVars, fireVars, deterVars, coreVars, riskVars, detectorVars>>

DirectActivateSuppression(emergency) ==
    DirectReturns(activate_suppression(TheFireSystem, emergency),
                  "activate_suppression", emergency)

DirectManualActivate ==
    DirectReturns(manual_activate(TheFireSystem), "manual_activate", FALSE)

DirectStopDischarge ==
    DirectReturns(stop_discharge(TheFireSystem), "stop_discharge", FALSE)

DirectAutoStop(timer) ==
    /\ now >= timer.due
    /\ DirectReturns(auto_stop(TheFireSystem, timer), "auto_stop", FALSE)

----------------------------------------------------------------------------
(* SpecLogs: the two bounded logs filled past their caps.  The event       *)
(* history belongs to the FireSuppressionSystem and the threat history to   *)
(* the UltraSeekerEngine; the two objects share nothing, and a behaviour    *)
(* fills one of them.  No time passes between the calls: the entries differ *)
(* by their Uuid.                                                           *)

HistoryCap == 1000
HistoryDrain == 100

\* The ThreatAssessment of generate_assessment at time t: its Uuid, its
\* timestamp and its level.
ThreatAssessment(id, t) ==
    [id |-> id, timestamp |-> t, threat_level |-> generate_assessment(t)]

\* UltraSeekerEngine::analyze_threats, on the threat history
analyze_threats(history, t, id) ==
    LET pushed == Append(history, ThreatAssessment(id, t))
    IN IF Len(pushed) > HistoryCap THEN Drain(pushed, HistoryDrain) ELSE pushed

\* log_fire_event, as the public operations call it after a discharge stops.
LogFireEvent ==
    /\ uuid < MaxFireLogCalls
    /\ FireBecomes(log_fire_event(TheFireSystem, "FireSuppressed",
                                  "Fire suppression discharge stopped"),
                   "log_fire_event", FALSE)

AnalyzeThreats ==
    /\ uuid < MaxAnalyses
    /\ threat_history' = analyze_threats(threat_history, now, uuid + 1)
    /\ uuid' = uuid + 1
    /\ call' = Call("analyze_threats", generate_assessment(now), "", FALSE, "Ok")
    /\ UNCHANGED <<now, droneVars, fireVars, deterVars, coreVars, riskVars>>

----------------------------------------------------------------------------
(* SpecRisk: assess_fire_risk on a system whose readings and whose           *)
(* auto-activation threshold are any of the values below.  The source        *)
(* computes in f32; on these values its result is the band of the exact      *)
(* score.                                                                     *)

RiskTemperatures == {10, 20, 45, 60, 61, 70, 72, 95}
RiskSmokeLevels == {0, 25, 50, 75, 90, 100}
RiskThresholds == {0, 60}

\* self.assess_fire_risk(): call.level is the risk score in thousandths,
\* call.text the severity returned.
AssessFireRisk ==
    /\ call' = Call("assess_fire_risk", risk_score_under(risk_config, fire),
                    assess_fire_risk_under(risk_config, fire), FALSE, "Ok")
    /\ UNCHANGED <<now, uuid, droneVars, fireVars, deterVars, coreVars, riskVars, detectorVars>>

----------------------------------------------------------------------------
(* deterrence-suite: configuration, voice messages *)

\* DeterrenceConfig::default
max_siren_volume == 85
voice_volume == 75
\* escalation_delay_ms: 2000, in seconds
escalation_delay == 2

StrobePattern == {"Off", "Pulse", "Alert", "Warning", "Emergency", "Phoenix"}

\* DeterrenceState::default
DeterrenceState_default ==
    [siren_active |-> FALSE,
     siren_volume |-> 0,
     strobe_active |-> FALSE,
     strobe_pattern |-> "Off",
     voice_active |-> FALSE,
     current_message |-> None,
     last_activation |-> None,
     activation_count |-> 0]

\* MythicVoice::get_message
get_message(threat_level, situation) ==
    CASE threat_level = Green -> "Guardian protocols active. Area under protection."
      [] threat_level = Yellow ->
            (CASE situation = "anomaly" -> "Anomaly detected. Please maintain calm behavior."
               [] situation = "proximity" -> "You are entering a protected zone. Please identify yourself."
               [] OTHER -> "Dark Phoenix monitoring. Please proceed with caution.")
      [] threat_level = Orange ->
            (CASE situation = "aggression" -> "Aggressive behavior detected. Cease immediately or authorities will be contacted."
               [] situation = "weapon" -> "Weapon detected. Drop the weapon and step back immediately."
               [] situation = "group_threat" -> "Multiple aggressors detected. Disperse immediately or law enforcement will be summoned."
               [] OTHER -> "Warning: Threat level elevated. You are being recorded. Authorities have been notified.")
      [] threat_level = Red ->
            (CASE situation = "imminent_danger" -> "IMMINENT DANGER DETECTED. EMERGENCY SERVICES CONTACTED. RETREAT IMMEDIATELY."
               [] situation = "weapon_drawn" -> "WEAPON DRAWN. DROP WEAPON NOW. POLICE EN ROUTE. YOU ARE BEING RECORDED."
               [] situation = "physical_attack" -> "PHYSICAL ATTACK IN PROGRESS. MEDICAL AND POLICE ASSISTANCE REQUESTED."
               [] OTHER -> "HIGH THREAT CONFIRMED. ALL DETERRENCE SYSTEMS ACTIVE. SURRENDER IMMEDIATELY.")
      [] threat_level = Omega -> "OMEGA PROTOCOL ACTIVATED / DARK PHOENIX RISING / MAXIMUM PROTECTION AUTHORIZED / SURRENDER OR FACE CONSEQUENCES"

\* MythicVoice::ceremonial_announcement
ceremonial_announcement(event) ==
    CASE event = "activation" -> "From the ashes of danger, the Dark Phoenix rises to protect the innocent."
      [] event = "victory" -> "The Phoenix has prevailed. Peace is restored. Guardian watch continues."
      [] event = "retreat" -> "Threat neutralized. The Phoenix returns to the shadows, ever watchful."
      [] OTHER -> "Dark Phoenix stands eternal vigil. None shall harm the protected."

(* deterrence-suite: the actuators *)

\* The deterrence suite with its collaborators, as one value:
\*   state: DeterrenceSuite.state;  siren, strobe, voice: the actuators;
\*   clock: Utc::now();  checked: whether the siren's log line is evaluated with
\*   overflow checks on;  result: "Ok", or "Panic" once a call has panicked
DeterSuite(st, siren, strobe, voice, clock, checked) ==
    [state |-> st, siren |-> siren, strobe |-> strobe, voice |-> voice,
     clock |-> clock, checked |-> checked, result |-> "Ok"]

SirenOff == [volume |-> 0, db |-> 0]
VoiceSilent == [message |-> "", volume |-> 0]

\* SirenController::activate: the log line computes 80 + (volume * 40 / 100) in u8.
\* volume * 40 above 255 panics with overflow checks on and wraps without.
SirenController_activate(sys, volume) ==
    IF sys.result = "Panic" THEN sys
    ELSE IF sys.checked /\ volume * 40 > 255 THEN [sys EXCEPT !.result = "Panic"]
    ELSE [sys EXCEPT !.siren = [volume |-> volume,
                                db |-> 80 + ((volume * 40) % 256) \div 100]]

\* SirenController::deactivate
SirenController_deactivate(sys) ==
    IF sys.result = "Panic" THEN sys ELSE [sys EXCEPT !.siren = SirenOff]

\* StrobeController::set_pattern
StrobeController_set_pattern(sys, pattern) ==
    IF sys.result = "Panic" THEN sys ELSE [sys EXCEPT !.strobe = pattern]

\* VoiceController::speak
VoiceController_speak(sys, message, volume) ==
    IF sys.result = "Panic" THEN sys
    ELSE [sys EXCEPT !.voice = [message |-> message, volume |-> volume]]

\* VoiceController::stop
VoiceController_stop(sys) ==
    IF sys.result = "Panic" THEN sys ELSE [sys EXCEPT !.voice = VoiceSilent]

\* Assignments to self.state: none once the call has panicked.
SetState(sys, st) ==
    IF sys.result = "Panic" THEN sys ELSE [sys EXCEPT !.state = st]

\* tokio::time::sleep
Sleep(sys, seconds) ==
    IF sys.result = "Panic" THEN sys ELSE [sys EXCEPT !.clock = @ + seconds]

(* deterrence-suite: DeterrenceSuite *)

\* deactivate_all leaving the voice fields as they were.
deactivate_all_keeps_voice(sys) ==
    LET off == VoiceController_stop(
                   StrobeController_set_pattern(SirenController_deactivate(sys), "Off"))
    IN SetState(off, [off.state EXCEPT !.siren_active = FALSE,
                                       !.siren_volume = 0,
                                       !.strobe_active = FALSE,
                                       !.strobe_pattern = "Off"])

\* DeterrenceSuite::deactivate_all
deactivate_all(sys) ==
    LET off == VoiceController_stop(
                   StrobeController_set_pattern(SirenController_deactivate(sys), "Off"))
    IN SetState(off, [off.state EXCEPT !.siren_active = FALSE,
                                       !.siren_volume = 0,
                                       !.strobe_active = FALSE,
                                       !.strobe_pattern = "Off",
                                       !.voice_active = FALSE,
                                       !.current_message = None])

\* DeterrenceSuite::activate_low_deterrence
activate_low_deterrence(sys, situation) ==
    LET strobed == StrobeController_set_pattern(sys, "Pulse")
        s1 == SetState(strobed, [strobed.state EXCEPT !.strobe_active = TRUE,
                                                     !.strobe_pattern = "Pulse"])
        message == get_message(Yellow, situation)
        spoken == VoiceController_speak(s1, message, voice_volume \div 2)
    IN SetState(spoken, [spoken.state EXCEPT !.voice_active = TRUE,
                                             !.current_message = Some(message)])

\* DeterrenceSuite::activate_medium_deterrence
activate_medium_deterrence(sys, situation) ==
    LET strobed == StrobeController_set_pattern(sys, "Warning")
        s1 == SetState(strobed, [strobed.state EXCEPT !.strobe_active = TRUE,
                                                     !.strobe_pattern = "Warning"])
        siren_volume == max_siren_volume \div 3
        sounded == SirenController_activate(s1, siren_volume)
        s2 == SetState(sounded, [sounded.state EXCEPT !.siren_active = TRUE,
                                                     !.siren_volume = siren_volume])
        message == get_message(Orange, situation)
        spoken == VoiceController_speak(s2, message, voice_volume)
    IN SetState(spoken, [spoken.state EXCEPT !.current_message = Some(message)])

\* DeterrenceSuite::activate_high_deterrence
activate_high_deterrence(sys, situation) ==
    LET strobed == StrobeController_set_pattern(sys, "Emergency")
        s1 == SetState(strobed, [strobed.state EXCEPT !.strobe_active = TRUE,
                                                     !.strobe_pattern = "Emergency"])
        siren_volume == (max_siren_volume * 2) \div 3
        sounded == SirenController_activate(s1, siren_volume)
        s2 == SetState(sounded, [sounded.state EXCEPT !.siren_active = TRUE,
                                                     !.siren_volume = siren_volume])
        message == get_message(Red, situation)
        spoken == VoiceController_speak(s2, message, voice_volume)
    IN SetState(spoken, [spoken.state EXCEPT !.current_message = Some(message)])

\* DeterrenceSuite::activate_omega_protocol
activate_omega_protocol(sys) ==
    LET strobed == StrobeController_set_pattern(sys, "Phoenix")
        s1 == SetState(strobed, [strobed.state EXCEPT !.strobe_active = TRUE,
                                                     !.strobe_pattern = "Phoenix"])
        sounded == SirenController_activate(s1, max_siren_volume)
        s2 == SetState(sounded, [sounded.state EXCEPT !.siren_active = TRUE,
                                                     !.siren_volume = max_siren_volume])
        message == get_message(Omega, "omega")
        spoken == VoiceController_speak(s2, message, 100)
        s3 == SetState(spoken, [spoken.state EXCEPT !.current_message = Some(message)])
    IN VoiceController_speak(Sleep(s3, escalation_delay),
                             ceremonial_announcement("activation"), 100)

\* activate counting only the levels that switch something on.
activate_green_uncounted(sys, threat_level, situation) ==
    LET begun == [sys EXCEPT !.state.last_activation = Some(sys.clock),
                             !.state.activation_count = @ + 1]
    IN CASE threat_level = Green -> deactivate_all(sys)
         [] threat_level = Yellow -> activate_low_deterrence(begun, situation)
         [] threat_level = Orange -> activate_medium_deterrence(begun, situation)
         [] threat_level = Red -> activate_high_deterrence(begun, situation)
         [] threat_level = Omega -> activate_omega_protocol(begun)

\* DeterrenceSuite::activate
activate(sys, threat_level, situation) ==
    LET begun == [sys EXCEPT !.state.last_activation = Some(sys.clock),
                             !.state.activation_count = @ + 1]
    IN CASE threat_level = Green -> deactivate_all(begun)
         [] threat_level = Yellow -> activate_low_deterrence(begun, situation)
         [] threat_level = Orange -> activate_medium_deterrence(begun, situation)
         [] threat_level = Red -> activate_high_deterrence(begun, situation)
         [] threat_level = Omega -> activate_omega_protocol(begun)

\* DeterrenceSuite::system_test
system_test(sys) ==
    LET spoken == Sleep(VoiceController_speak(sys, "System test initiated", 50), 1)
        strobed == Sleep(StrobeController_set_pattern(spoken, "Alert"), 2)
        sounded == Sleep(SirenController_activate(strobed, 20), 1)
    IN VoiceController_speak(deactivate_all(sounded),
                             "System test complete. All systems operational.", 50)

----------------------------------------------------------------------------
(* SpecDeter: the deterrence suite *)

Situations == {"anomaly", "weapon", "unknown"}

TheDeterSuite == DeterSuite(deter, siren_hw, strobe_hw, voice_hw, now, overflow_checks)

\* The variables after a deterrence call that left the suite as `sys`.
DeterReturns(sys, op, level, situation) ==
    /\ ~panicked
    /\ sys.clock <= MaxDeterTime
    /\ sys.state.activation_count <= MaxDeterActivations
    /\ deter' = sys.state
    /\ siren_hw' = sys.siren
    /\ strobe_hw' = sys.strobe
    /\ voice_hw' = sys.voice
    /\ now' = sys.clock
    /\ panicked' = (sys.result = "Panic")
    /\ deter_before' = deter
    /\ activate_calls' = IF op = "activate" THEN activate_calls + 1 ELSE activate_calls
    /\ call' = Call(op, level, situation, FALSE, sys.result)
    /\ UNCHANGED <<uuid, overflow_checks, droneVars, fireVars, coreVars, riskVars, detectorVars>>

DeterTick ==
    /\ now < MaxDeterTime
    /\ now' = now + 1
    /\ call' = Call("tick", 0, "", FALSE, "Ok")
    /\ UNCHANGED <<uuid, droneVars, fireVars, deterVars, coreVars, riskVars, detectorVars>>

Activate(threat_level, situation) ==
    DeterReturns(activate(TheDeterSuite, threat_level, situation),
                 "activate", threat_level, situation)

DeactivateAll ==
    DeterReturns(deactivate_all(TheDeterSuite), "deactivate_all", 0, "")

SystemTest ==
    DeterReturns(system_test(TheDeterSuite), "system_test", 0, "")

----------------------------------------------------------------------------
(* The specifications *)

InitCommon ==
    /\ now = 0
    /\ uuid = 0
    /\ call = NoCall

InitDetectorNew ==
    /\ threat_history = <<>>

InitDroneNew ==
    /\ drone = DroneState_new
    /\ max_passed = Green

InitFireNew ==
    /\ fire = FireSuppressionState_default
    /\ event_history = <<>>
    /\ valve_open = FALSE
    /\ nozzle_hw = "stowed"
    /\ timers = {}
    /\ commands = <<>>

InitCoreNew ==
    /\ pc = [t \in Tasks |-> IF t = Scheduler THEN "ignite" ELSE "idle"]
    /\ lock = RwLock_new
    /\ steps_left = 0

InitRiskNew ==
    /\ risk_config = FireSuppressionConfig_default

InitDeterNew ==
    /\ deter = DeterrenceState_default
    /\ siren_hw = SirenOff
    /\ strobe_hw = "Off"
    /\ voice_hw = VoiceSilent
    /\ overflow_checks = FALSE
    /\ panicked = FALSE
    /\ deter_before = DeterrenceState_default
    /\ activate_calls = 0

InitDrone ==
    /\ InitCommon
    /\ InitDetectorNew
    /\ InitCoreNew
    /\ InitRiskNew
    /\ \E l \in ThreatLevel, b \in BatteryLevels, sh \in ShieldLevels, c \in BOOLEAN :
          drone = [DroneState_new EXCEPT !.threat_level = l,
                                         !.battery_level = b,
                                         !.shield_integrity = sh,
                                         !.communication_status = c]
    /\ max_passed = drone.threat_level
    /\ InitFireNew
    /\ InitDeterNew

NextDrone ==
    \/ DroneTick
    \/ \E l \in ThreatLevel, r \in Reasons : EscalateThreat(l, r)
    \/ \E e \in LoggedTypes : LogEvent(e)
    \/ IsCritical

SpecDrone == InitDrone /\ [][NextDrone]_vars

InitFire ==
    /\ InitCommon
    /\ InitDetectorNew
    /\ InitCoreNew
    /\ InitRiskNew
    /\ InitDroneNew
    /\ fire \in InitialFireStates
    /\ event_history = <<>>
    /\ valve_open = FALSE
    /\ nozzle_hw = "stowed"
    /\ timers = {}
    /\ commands = <<>>
    /\ InitDeterNew

NextFire ==
    \/ FireTick
    \/ \E t \in Temperatures, s \in SmokeLevels, p \in Pressures :
          MonitorAndRespond(Ok(t), Ok(s), Ok(p))
    \/ \E e \in BOOLEAN : ActivateSuppression(e)
    \/ ManualActivate
    \/ StopDischarge
    \/ \E tm \in timers : AutoStop(tm)

SpecFire == InitFire /\ [][NextFire]_vars

\* The fire-suppression system with sensors whose reads may fail.
NextFireFaulty ==
    \/ NextFire
    \/ \E t \in Readings(Temperatures), s \in Readings(SmokeLevels), p \in Readings(Pressures) :
          /\ SensorUnavailable \in {t, s, p}
          /\ MonitorAndRespond(t, s, p)

SpecFireFaulty == InitFire /\ [][NextFireFaulty]_vars

NextFireCalls ==
    \/ DirectTick
    \/ \E emergency \in BOOLEAN : DirectActivateSuppression(emergency)
    \/ DirectManualActivate
    \/ DirectStopDischarge
    \/ \E timer \in timers : DirectAutoStop(timer)

InitFireCalls ==
    /\ InitCommon
    /\ InitDetectorNew
    /\ InitCoreNew
    /\ InitDroneNew
    /\ InitDeterNew
    /\ risk_config \in FireConfigs
    /\ fire \in InitialFireStates
    /\ event_history = <<>>
    /\ valve_open = FALSE
    /\ nozzle_hw = "stowed"
    /\ timers = {}
    /\ commands = <<>>

SpecFireCalls == InitFireCalls /\ [][NextFireCalls]_vars

NextLogs ==
    \/ threat_history = <<>> /\ LogFireEvent
    \/ event_history = <<>> /\ AnalyzeThreats

SpecLogs == InitFire /\ [][NextLogs]_vars

InitDeter ==
    /\ InitCommon
    /\ InitDetectorNew
    /\ InitCoreNew
    /\ InitRiskNew
    /\ InitDroneNew
    /\ InitFireNew
    /\ deter = DeterrenceState_default
    /\ siren_hw = SirenOff
    /\ strobe_hw = "Off"
    /\ voice_hw = VoiceSilent
    /\ overflow_checks \in BOOLEAN
    /\ panicked = FALSE
    /\ deter_before = DeterrenceState_default
    /\ activate_calls = 0

NextDeter ==
    \/ DeterTick
    \/ \E l \in ThreatLevel, sit \in Situations : Activate(l, sit)
    \/ DeactivateAll
    \/ SystemTest

SpecDeter == InitDeter /\ [][NextDeter]_vars

InitCore ==
    /\ InitCommon
    /\ InitDetectorNew
    /\ InitDroneNew
    /\ InitCoreNew
    /\ InitFireNew
    /\ InitDeterNew
    /\ InitRiskNew

SchedulerStep ==
    \/ Ignite
    \/ Awaken
    \/ ProtectionCycle
    \/ UpdateSystemHealth
    \/ AssessThreats
    \/ CoordinateResponse
    \/ SleepOver

NextCore ==
    \/ SchedulerStep
    \/ \E t \in Tasks : Acquire(t)
    \/ \E r \in StatusCallers : GetStatusCall(r) \/ GetStatus(r)
    \/ \E e \in LandingCallers : EmergencyLandingCall(e) \/ EmergencyLanding(e)

SpecCore == InitCore /\ [][NextCore]_vars

\* The runtime runs every task that can run: a granted guard is taken, and a
\* task that holds its guard goes on to drop it.  Callers need not call.
SpecCoreFair ==
    /\ SpecCore
    /\ WF_vars(SchedulerStep)
    /\ \A t \in Tasks : WF_vars(Acquire(t))
    /\ \A r \in StatusCallers : WF_vars(GetStatus(r))
    /\ \A e \in LandingCallers : WF_vars(EmergencyLanding(e))

InitRisk ==
    /\ InitCommon
    /\ InitDetectorNew
    /\ InitDroneNew
    /\ InitCoreNew
    /\ \E t \in RiskTemperatures, s \in RiskSmokeLevels :
          fire = [FireSuppressionState_default EXCEPT !.current_temperature = t,
                                                      !.smoke_level = s]
    /\ event_history = <<>>
    /\ valve_open = FALSE
    /\ nozzle_hw = "stowed"
    /\ timers = {}
    /\ commands = <<>>
    /\ \E a \in RiskThresholds : risk_config = [FireSuppressionConfig_default EXCEPT !.auto_activation_temp = a]
    /\ InitDeterNew

NextRisk == AssessFireRisk

SpecRisk == InitRisk /\ [][NextRisk]_vars

----------------------------------------------------------------------------
(* Claims about DroneState, under SpecDrone *)

LastEvent == drone.mission_log[Len(drone.mission_log)]

\* C1: over every sequence of escalate_threat calls, from any initial level,
\* the threat level never decreases, and it always equals the maximum of the
\* initial level and the levels passed in so far.
C1_EscalationIsMonotoneMax ==
    /\ [][drone'.threat_level >= drone.threat_level]_vars
    /\ [](drone.threat_level = max_passed)

\* Two escalations were logged, and a third call passed a lower level.
C1_Witness ==
    /\ call.op = "escalate_threat"
    /\ call.level < drone.threat_level
    /\ Len(drone.mission_log) = 2
    /\ \A i \in 1..2 : drone.mission_log[i].event_type = "ThreatDetected"
    /\ drone.mission_log[1].threat_level < drone.mission_log[2].threat_level

\* C2: escalate_threat(L, reason) with L <= the current level leaves the whole
\* DroneState as it was: same level, same mission log, same last_update.
C2_EscalateNotAboveIsNoOp ==
    [][(call'.op = "escalate_threat" /\ call'.level <= drone.threat_level)
          => drone' = drone]_vars

\* A lower level was passed, later than the last update, with events in the log.
C2_Witness ==
    /\ call.op = "escalate_threat"
    /\ call.level < drone.threat_level
    /\ drone.mission_log # <<>>
    /\ now > drone.last_update

\* C3: escalate_threat(L, reason) with L > the current level sets the level to L
\* and appends exactly one event, of type ThreatDetected, recording level L and
\* a description with L's name and the reason; the earlier events stay in place.
C3_EscalateSetsLevelAndLogsIt ==
    [][(call'.op = "escalate_threat" /\ call'.level > drone.threat_level)
          => /\ drone'.threat_level = call'.level
             /\ Len(drone'.mission_log) = Len(drone.mission_log) + 1
             /\ SubSeq(drone'.mission_log, 1, Len(drone.mission_log)) = drone.mission_log
             /\ LastEvent'.event_type = "ThreatDetected"
             /\ LastEvent'.threat_level = call'.level
             /\ LastEvent'.description[2] = as_str(call'.level)
             /\ LastEvent'.description[4] = call'.text]_vars

\* An escalation has just appended its event after an earlier event of a lower level.
C3_Witness ==
    /\ call.op = "escalate_threat"
    /\ Len(drone.mission_log) = 2
    /\ LastEvent.id = uuid
    /\ LastEvent.timestamp = now
    /\ LastEvent.event_type = "ThreatDetected"
    /\ LastEvent.threat_level = call.level
    /\ drone.threat_level = call.level
    /\ drone.mission_log[1].threat_level < call.level

\* C4: is_critical() is true if and only if level >= Red, or battery < 20, or
\* the communication status is false, or shield integrity < 50.
C4_IsCriticalIff ==
    call.op = "is_critical" =>
        (call.flag <=> \/ drone.threat_level >= 3
                       \/ drone.battery_level < 20
                       \/ ~drone.communication_status
                       \/ drone.shield_integrity < 50)

\* is_critical() answered true with the battery at 19 as the only cause.
C4_Witness ==
    /\ call.op = "is_critical"
    /\ call.flag
    /\ drone.battery_level = 19
    /\ drone.threat_level < 3
    /\ drone.communication_status
    /\ drone.shield_integrity = 50

----------------------------------------------------------------------------
(* Claims about the fire-suppression system, under SpecFire *)

\* The cooldown applies to a call: not an emergency, no manual override, and
\* less than cooldown_period since the last activation.
CooldownApplies(emergency) ==
    /\ ~emergency
    /\ ~fire.manual_override_active
    /\ fire.last_activation # None
    /\ now - fire.last_activation[1] < config.cooldown_period

\* The readiness gate passes: armed, pressure at least the minimum, capacity
\* above 5 %, health not Offline.
ReadinessGatePasses ==
    /\ fire.system_armed
    /\ fire.extinguisher_pressure >= config.min_pressure
    /\ fire.extinguisher_capacity > 5
    /\ fire.system_health # "Offline"

\* C5: activate_suppression(false), with no manual override and less than
\* cooldown_period since last_activation, returns Ok and changes nothing:
\* state (total_activations, last_activation, discharge_active, nozzle), event
\* history, timers, valve and nozzle actuator are as before.
C5_CooldownCallIsNoOp ==
    [][(call'.op = "activate_suppression" /\ CooldownApplies(call'.flag))
          => /\ call'.result = "Ok"
             /\ UNCHANGED <<fire, event_history, timers, valve_open, nozzle_hw>>]_vars

\* A standard activation, then a second standard call a second later, within
\* the cooldown: one activation counted, one event, one timer spawned.
C5_Witness ==
    /\ call.op = "activate_suppression"
    /\ ~call.flag
    /\ call.result = "Ok"
    /\ ~fire.manual_override_active
    /\ fire.last_activation # None
    /\ now > fire.last_activation[1]
    /\ now - fire.last_activation[1] < config.cooldown_period
    /\ fire.total_activations = 1
    /\ Len(event_history) = 1
    /\ event_history[1].response_actions = <<"STANDARD fire suppression activated">>

\* C6: activate_suppression(true) proceeds whenever the readiness gate passes,
\* whatever the time since last_activation: discharge_active becomes true and
\* total_activations increases by one.
C6_EmergencyIgnoresCooldown ==
    [][(call'.op = "activate_suppression" /\ call'.flag /\ ReadinessGatePasses)
          => /\ fire'.discharge_active
             /\ fire'.total_activations = fire.total_activations + 1]_vars

\* An emergency activation has just run less than cooldown_period after an
\* earlier activation.
C6_Witness ==
    /\ call.op = "activate_suppression"
    /\ call.flag
    /\ fire.last_activation = Some(now)
    /\ fire.total_activations = 2
    /\ Len(event_history) = 2
    /\ event_history[1].event_type = "SystemActivated"
    /\ event_history[1].response_actions = <<"STANDARD fire suppression activated">>
    /\ now - event_history[1].timestamp < config.cooldown_period
    /\ event_history[2].response_actions = <<"EMERGENCY fire suppression activated">>

C8_AutoStopEndsDischarge ==
    (call.op = "auto_stop" /\ timers = {}) => ~fire.discharge_active

----------------------------------------------------------------------------
(* Claims about the deterrence suite, under SpecDeter *)

\* C9: after activate(Green, _), from any deterrence state, the siren is off at
\* volume 0, the strobe is off with pattern Off, the voice is inactive and no
\* message is current.
C9_GreenDeactivatesAll ==
    (call.op = "activate" /\ call.level = 0) =>
        /\ ~deter.siren_active
        /\ deter.siren_volume = 0
        /\ ~deter.strobe_active
        /\ deter.strobe_pattern = "Off"
        /\ ~deter.voice_active
        /\ deter.current_message = None

\* activate(Green, _) found the siren, the strobe and the voice active.
C9_Witness ==
    /\ call.op = "activate"
    /\ call.level = 0
    /\ deter_before.siren_active
    /\ deter_before.siren_volume > 0
    /\ deter_before.strobe_active
    /\ deter_before.voice_active
    /\ deter_before.current_message # None

\* The tabulated profile: strobe pattern and siren volume of each level.
ProfileStrobe(level) ==
    CASE level = 0 -> "Off"
      [] level = 1 -> "Pulse"
      [] level = 2 -> "Warning"
      [] level = 3 -> "Emergency"
      [] level = 4 -> "Phoenix"

ProfileSiren(level) ==
    CASE level = 0 -> 0
      [] level = 1 -> 0
      [] level = 2 -> 85 \div 3
      [] level = 3 -> (85 * 2) \div 3
      [] level = 4 -> 85

\* C10: after activate(L, _) has returned, from any prior deterrence state, the
\* strobe pattern and the siren volume are those of L's profile.
C10_ProfileIsFunctionOfLevel ==
    (call.op = "activate" /\ call.result = "Ok") =>
        /\ deter.strobe_pattern = ProfileStrobe(call.level)
        /\ deter.siren_volume = ProfileSiren(call.level)

\* C37: after every activate and deactivate_all call that returned,
\* voice_active is true exactly when a current message is set.
C37_VoiceActiveIffMessage ==
    (call.op \in {"activate", "deactivate_all"} /\ call.result = "Ok")
        => (deter.voice_active <=> deter.current_message # None)

\* C40: no siren activation overflows its 8-bit decibel computation: no call
\* panics, and the decibels the siren is driven at are 80 + volume * 40 / 100.
C40_SirenDecibelsNeverOverflow ==
    /\ ~panicked
    /\ siren_hw # SirenOff => siren_hw.db = 80 + (siren_hw.volume * 40) \div 100

\* C11: every activate(level, situation) call, at every level including Green,
\* increments activation_count by exactly one and sets last_activation to the
\* time of the call; no other operation changes either; activation_count
\* equals the number of activate calls made so far.
C11_ActivateCountsEveryCall ==
    /\ [][IF call'.op = "activate"
          THEN /\ deter'.activation_count = deter.activation_count + 1
               /\ deter'.last_activation = Some(now)
          ELSE /\ deter'.activation_count = deter.activation_count
               /\ deter'.last_activation = deter.last_activation]_vars
    /\ [](deter.activation_count = activate_calls)

\* activate(Green, _) was the third activate call, later than the second one.
C11_Witness ==
    /\ call.op = "activate"
    /\ call.level = 0
    /\ activate_calls = 3
    /\ deter.activation_count = 3
    /\ deter_before.activation_count = 2
    /\ deter_before.last_activation # None
    /\ deter_before.last_activation # deter.last_activation
    /\ deter.last_activation # None

----------------------------------------------------------------------------
(* Claims about DarkPhoenixCore, under SpecCore *)

\* A protection cycle holds its write guard and has run some of its steps.
CycleUnderWay == pc[Scheduler] \in {"update_system_health", "assess_threats", "coordinate_response"}

\* An emergency_landing has completed.
Landed == \E i \in DOMAIN drone.mission_log : drone.mission_log[i].event_type = "SystemMalfunction"

\* C12: the protection cycle and emergency_landing never hold write access to
\* the DroneState together, each holds it through all of its updates, and
\* get_status never reads while either of them holds it: a status report is
\* never made with a protection cycle part-way.
C12_WritersExcludeReadersConsistent ==
    /\ Cardinality(lock.holders \cap Writers) <= 1
    /\ lock.holders \cap Writers # {} => Cardinality(lock.holders) = 1
    /\ CycleUnderWay => Scheduler \in lock.holders
    /\ \A e \in LandingCallers : pc[e] = "emergency_landing" => e \in lock.holders
    /\ \A r \in StatusCallers : pc[r] = "get_status" => (r \in lock.holders /\ steps_left = 0)
    /\ call.op = "get_status" => ~call.flag

\* Both status callers read together while emergency_landing and the next
\* protection cycle wait for write access.
C12_Witness ==
    /\ lock.holders = StatusCallers
    /\ \A r \in StatusCallers : pc[r] = "get_status"
    /\ Range(lock.waiters) = Writers
    /\ drone.battery_level < 100

\* C13: protection_cycle is called only when the cycle before it has run all
\* three steps and dropped its guard, so no two cycles overlap; a cycle that
\* waits or runs long holds the loop back.
C13_CyclesNeverOverlap ==
    [][call'.op = "protection_cycle"
          => /\ steps_left = 0
             /\ Scheduler \notin lock.holders
             /\ Scheduler \notin Range(lock.waiters)]_vars

\* A second protection cycle has been called, behind an emergency_landing that
\* waits for the lock a status caller holds.
C13_Witness ==
    /\ call.op = "protection_cycle"
    /\ drone.battery_level = 99
    /\ lock.waiters = <<"landing1", Scheduler>>
    /\ lock.holders = {"status1"}

\* C14: no task waits for the DroneState forever: a task never requests the
\* lock while it holds it, and every task that waits for the lock gets it.
C14_NoTaskWaitsForever ==
    /\ [](\A t \in Tasks : ~(t \in Range(lock.waiters) /\ t \in lock.holders))
    /\ \A t \in Tasks : (t \in Range(lock.waiters)) ~> (t \in lock.holders)

\* Every caller waits for the lock at once, behind a protection cycle.
C14_Witness ==
    /\ Range(lock.waiters) = Tasks \ {Scheduler}
    /\ lock.holders = {Scheduler}
    /\ CycleUnderWay

\* C15: once an emergency_landing has completed, protection_cycle is not
\* called again.
C15_LandingHaltsCycling ==
    Landed => call.op # "protection_cycle"

\* C16: with the battery below 20 the threat level is at least Orange, from the
\* health update that first finds it below 20 on: that update appends the one
\* ThreatDetected event for the battery, and no cycle before it does.
C16_LowBatteryEscalatesOnce ==
    LET battery_events ==
            {i \in DOMAIN drone.mission_log :
                /\ drone.mission_log[i].event_type = "ThreatDetected"
                /\ drone.mission_log[i].description[4] = "Critical battery level detected"}
    IN IF drone.battery_level < 20
       THEN drone.threat_level >= 2 /\ Cardinality(battery_events) = 1
       ELSE battery_events = {}

\* A protection cycle has completed with the battery at 18: the level is Orange
\* and the event of the cycle before it is the only ThreatDetected event.
C16_Witness ==
    /\ call.op = "coordinate_response"
    /\ steps_left = 0
    /\ drone.battery_level = 18
    /\ drone.threat_level = 2
    /\ Len(drone.mission_log) = 2
    /\ drone.mission_log[2].event_type = "ThreatDetected"
    /\ drone.mission_log[2].threat_level = 2

\* C17: after the threat-assessment step of a cycle, the threat level is at
\* least the level the detector assesses.
C17_AssessmentIsFedIn ==
    call.op = "assess_threats" => drone.threat_level >= call.level

\* C21: the mission log is append-only: every step of ignite, of a protection
\* cycle, of emergency_landing and of get_status, with the log_event and
\* escalate_threat calls they make, leaves the log it found as a prefix of the
\* new log.
C21_MissionLogAppendOnly ==
    [][/\ Len(drone'.mission_log) >= Len(drone.mission_log)
       /\ SubSeq(drone'.mission_log, 1, Len(drone.mission_log)) = drone.mission_log]_vars

\* emergency_landing has logged after the awakening and the battery escalation.
C21_Witness ==
    /\ call.op = "emergency_landing"
    /\ Len(drone.mission_log) = 3
    /\ drone.mission_log[1].event_type = "PhoenixRising"
    /\ drone.mission_log[2].event_type = "ThreatDetected"
    /\ drone.mission_log[3].event_type = "SystemMalfunction"
    /\ drone.mission_log[3].threat_level = 2

\* C22: the scheduler holds write access for the three steps of one cycle,
\* health update, threat assessment, response coordination, in that order, and
\* has released it when it sleeps; every get_status and emergency_landing
\* request is granted in the end.
C22_AccessHeldForOneCycleOnly ==
    /\ [](pc[Scheduler] \in {"sleep", "loop"} => Scheduler \notin lock.holders)
    /\ [][/\ call'.op = "update_system_health"
                => (pc[Scheduler] = "update_system_health" /\ steps_left = 3)
          /\ call'.op = "assess_threats" => (pc[Scheduler] = "assess_threats" /\ steps_left = 2)
          /\ call'.op = "coordinate_response"
                => (steps_left = 1 /\ Scheduler \notin lock'.holders /\ pc'[Scheduler] = "sleep")]_vars
    /\ \A t \in StatusCallers \cup LandingCallers :
          (pc[t] \in WaitingAt) ~> (pc[t] \in {"get_status", "emergency_landing"})

\* emergency_landing, requested during a cycle, is granted while the scheduler sleeps.
C22_Witness ==
    /\ call.op = "acquire"
    /\ call.text = "landing1"
    /\ pc["landing1"] = "emergency_landing"
    /\ pc[Scheduler] = "sleep"
    /\ steps_left = 0
    /\ drone.battery_level < 100

\* C30: the battery level never increases and never leaves 0..100; the health
\* update of a cycle lowers it by one while it is above 0 and leaves it at 0;
\* no other step changes it.
C30_BatteryDecaySaturates ==
    /\ [](drone.battery_level \in 0..100)
    /\ [][/\ drone'.battery_level <= drone.battery_level
          /\ IF call'.op = "update_system_health"
             THEN drone'.battery_level = (IF drone.battery_level > 0
                                          THEN drone.battery_level - 1 ELSE 0)
             ELSE drone'.battery_level = drone.battery_level]_vars

\* A health update has left the battery at 0, long after the escalation.
C30_Witness ==
    /\ call.op = "update_system_health"
    /\ drone.battery_level = 0
    /\ drone.threat_level = 2
    /\ steps_left = 2

\* C31: from ignition with battery 100 and level Green, with the protection
\* cycles running and no threat input, the threat level eventually is at least
\* Orange and from then on stays at least Orange for ever.
C31_EventuallyOrangeForEver ==
    /\ <>[](drone.threat_level >= Orange)
    /\ [][drone.threat_level >= Orange => drone'.threat_level >= Orange]_vars

\* The health update of the 81st cycle has just found the battery at 19 and
\* raised the level from Green to Orange, logging it.
C31_Witness ==
    /\ call.op = "update_system_health"
    /\ drone.battery_level = 19
    /\ drone.threat_level = Orange
    /\ Len(drone.mission_log) = 2
    /\ drone.mission_log[1].event_type = "PhoenixRising"
    /\ drone.mission_log[2].event_type = "ThreatDetected"
    /\ drone.mission_log[2].threat_level = Orange

----------------------------------------------------------------------------
(* Claims about activation, discharge and the nozzle, under SpecFire *)

\* The event history after the call is the one before it with `n` events added.
EventsAdded(n) ==
    /\ Len(event_history') = Len(event_history) + n
    /\ SubSeq(event_history', 1, Len(event_history)) = event_history

\* activate_suppression(emergency) gets past its cooldown and readiness gates.
ActivationSucceeds ==
    /\ call'.op = "activate_suppression"
    /\ ~CooldownApplies(call'.flag)
    /\ ReadinessGatePasses

\* C23: a successful activate_suppression(emergency) puts the nozzle in
\* Emergency when emergency is true and in Targeting otherwise, opens the valve,
\* sets discharge_active, sets last_activation to now, adds exactly one to
\* total_activations and appends exactly one event, a SystemActivated one.
C23_SuccessfulActivationEffects ==
    [][ActivationSucceeds
          => /\ call'.result = "Ok"
             /\ fire'.nozzle_position = (IF call'.flag THEN "Emergency" ELSE "Targeting")
             /\ valve_open'
             /\ fire'.discharge_active
             /\ fire'.last_activation = Some(now)
             /\ fire'.total_activations = fire.total_activations + 1
             /\ EventsAdded(1)
             /\ event_history'[Len(event_history')].event_type = "SystemActivated"]_vars

\* The first activation of a system is an emergency one: the nozzle was
\* commanded to its emergency position and then the valve opened.
C23_Witness ==
    /\ call.op = "activate_suppression"
    /\ call.flag
    /\ call.result = "Ok"
    /\ fire.nozzle_position = "Emergency"
    /\ fire.total_activations = 1
    /\ fire.last_activation = Some(now)
    /\ valve_open
    /\ commands = <<"nozzle.emergency_deploy", "valve.open">>
    /\ Len(event_history) = 1
    /\ event_history[1].event_type = "SystemActivated"

\* C24: every successful activation (by activate_suppression or through
\* manual_activate) spawns exactly one auto-stop task, due
\* max_discharge_duration later; nothing but its own run removes a task
\* (stop_discharge, another activation and monitor_and_respond leave the tasks
\* there); time does not pass a due task by a tick; and the task's run closes
\* the valve, returns no error and touches neither the state nor the events,
\* whether or not the discharge was stopped before.
C24_AutoStopTimerIndependent ==
    [][/\ (ActivationSucceeds \/ (call'.op = "manual_activate" /\ ReadinessGatePasses))
            => \E tm \in timers' \ timers :
                  /\ timers' = timers \cup {tm}
                  /\ tm.due = now + config.max_discharge_duration
       /\ call'.op # "auto_stop" => timers \subseteq timers'
       /\ call'.op = "tick" => \A tm \in timers : tm.due >= now'
       /\ call'.op = "auto_stop"
            => /\ call'.result = "Ok"
               /\ ~valve_open'
               /\ \E tm \in timers : tm.due <= now /\ timers' = timers \ {tm}
               /\ UNCHANGED <<fire, event_history, nozzle_hw, now>>]_vars

\* The auto-stop task of an activation runs after stop_discharge has already
\* stopped that discharge and retracted the nozzle.
C24_Witness ==
    /\ call.op = "auto_stop"
    /\ call.result = "Ok"
    /\ commands = <<"valve.close">>
    /\ ~valve_open
    /\ ~fire.discharge_active
    /\ fire.nozzle_position = "Retracted"
    /\ Len(event_history) = 2
    /\ event_history[2].event_type = "FireSuppressed"
    /\ timers = {}

PushedOldestOut(before, after, cap, drained) ==
    LET k == IF Len(before) >= cap THEN drained ELSE 0
    IN /\ Len(after) = Len(before) + 1 - k
       /\ \A i \in 1..(Len(after) - 1) : after[i] = before[i + k]
       /\ \A i \in 1..Len(before) : after[Len(after)].id # before[i].id

\* C29: the event history never holds more than EventCap (100) events and the
\* threat history never more than HistoryCap (1000) assessments; a
\* log_fire_event on a full history drops the EventDrain (10) oldest events and
\* an analyze_threats on a full history the HistoryDrain (100) oldest
\* assessments; every call leaves its new entry last and the entries kept in
\* their order.
C29_LogsCappedOldestFirst ==
    /\ [](Len(event_history) <= EventCap /\ Len(threat_history) <= HistoryCap)
    /\ [][/\ call'.op = "log_fire_event"
                => /\ PushedOldestOut(event_history, event_history', EventCap, EventDrain)
                   /\ event_history'[Len(event_history')].id = uuid'
          /\ call'.op = "analyze_threats"
                => /\ PushedOldestOut(threat_history, threat_history', HistoryCap, HistoryDrain)
                   /\ threat_history'[Len(threat_history')].id = uuid']_vars

\* The 101st event has just been logged: the first ten are gone, the 11th is
\* now the oldest and the 101st the newest of 91.
C29_Witness ==
    /\ call.op = "log_fire_event"
    /\ Len(event_history) = EventCap + 1 - EventDrain
    /\ event_history[1].id = EventDrain + 1
    /\ event_history[Len(event_history)].id = EventCap + 1

\* The 1001st assessment has just been stored: the first hundred are gone, the
\* 101st is now the oldest and the 1001st the newest of 901.
C29_WitnessThreatHistory ==
    /\ call.op = "analyze_threats"
    /\ Len(threat_history) = HistoryCap + 1 - HistoryDrain
    /\ threat_history[1].id = HistoryDrain + 1
    /\ threat_history[Len(threat_history)].id = HistoryCap + 1

\* C32: between fire-suppression operations, the sensors and the actuators
\* succeeding, discharge_active is true exactly when nozzle_position is
\* Targeting or Emergency.
C32_DischargeIffNozzleAimed ==
    fire.discharge_active <=> fire.nozzle_position \in {"Targeting", "Emergency"}

\* The auto-stop task of an emergency activation has run: the state still
\* shows a discharge and the nozzle in its emergency position.
C32_Witness ==
    /\ call.op = "auto_stop"
    /\ fire.discharge_active
    /\ fire.nozzle_position = "Emergency"
    /\ ~valve_open
    /\ timers = {}

\* C33: an activation requested while discharge_active is already true, by
\* activate_suppression or by monitor_and_respond, neither adds to
\* total_activations nor spawns a further auto-stop task.
C33_ActivationsCountEpisodes ==
    [][(call'.op \in {"activate_suppression", "monitor_and_respond"} /\ fire.discharge_active)
          => /\ fire'.total_activations = fire.total_activations
             /\ timers' \subseteq timers]_vars

\* The discharge under way was started after an earlier one had been stopped:
\* the last two events are a FireSuppressed and then a SystemActivated one.
StartedAfterStop ==
    /\ fire.discharge_active
    /\ Len(event_history) >= 3
    /\ event_history[Len(event_history) - 1].event_type = "FireSuppressed"
    /\ event_history[Len(event_history)].event_type = "SystemActivated"

\* C34: after an activation, a stop_discharge and a second activation, an
\* auto-stop task that runs when it is due closes the open valve only once the
\* second discharge has lasted max_discharge_duration.
C34_TimerEndsOnlyItsOwnDischarge ==
    [][(call'.op = "auto_stop" /\ valve_open /\ StartedAfterStop)
          => \A tm \in timers \ timers' :
                tm.due = now => now - fire.last_activation[1] >= config.max_discharge_duration]_vars

C36_OverrideNotAllowedKeepsCooldown ==
    [][(/\ call'.op = "manual_activate"
        /\ ~config.allow_manual_override
        /\ fire.last_activation # None
        /\ now - fire.last_activation[1] < config.cooldown_period)
          => /\ fire'.total_activations = fire.total_activations
             /\ timers' = timers
             /\ valve_open' = valve_open]_vars

\* C38: whenever monitor_and_respond has completed with Low risk assessed, the
\* nozzle is Retracted.
C38_LowRiskLeavesNozzleRetracted ==
    (call.op = "monitor_and_respond" /\ call.result = "Ok" /\ assess_fire_risk(fire) = "Low")
        => fire.nozzle_position = "Retracted"

\* C39: whatever the smoke level between 0 and 1, a temperature that does not
\* exceed auto_activation_temp is assessed Low or Medium; and a
\* monitor_and_respond that reads such a temperature counts no activation,
\* spawns no auto-stop task, opens no valve and aims no nozzle.  (The
\* assessment depends on the two readings and on the configuration only, and
\* the configuration never changes: the first conjunct is about the system as
\* built.)
C39_SmokeAloneNeverDischarges ==
    /\ \A t \in RiskTemperatures, sm \in RiskSmokeLevels :
           t <= config.auto_activation_temp
              => assess_fire_risk([fire EXCEPT !.current_temperature = t,
                                               !.smoke_level = sm]) \in {"Low", "Medium"}
    /\ [][(/\ call'.op = "monitor_and_respond"
           /\ call'.result = "Ok"
           /\ fire'.current_temperature <= config.auto_activation_temp)
             => /\ assess_fire_risk(fire') \in {"Low", "Medium"}
                /\ fire'.total_activations = fire.total_activations
                /\ fire'.last_activation = fire.last_activation
                /\ timers' = timers
                /\ valve_open' => valve_open
                /\ "valve.open" \notin Range(commands')
                /\ fire'.nozzle_position \in {fire.nozzle_position, "Deployed", "Retracted"}]_vars

\* monitor_and_respond has read 20 degrees and smoke 0.9 on a new system: the
\* risk is Medium, the nozzle is deployed and nothing is discharged.
C39_Witness ==
    /\ call.op = "monitor_and_respond"
    /\ call.result = "Ok"
    /\ fire.current_temperature = 20
    /\ fire.smoke_level = 90
    /\ assess_fire_risk(fire) = "Medium"
    /\ fire.total_activations = 0
    /\ fire.last_activation = None
    /\ ~valve_open
    /\ timers = {}
    /\ commands = <<"nozzle.deploy">>

\* The transitions of the nozzle position the specification allows.
NozzleEdges ==
    {<<"Retracted", "Deployed">>, <<"Deployed", "Targeting">>, <<"Deployed", "Emergency">>,
     <<"Targeting", "Retracted">>, <<"Emergency", "Retracted">>}

\* C26: the nozzle position changes only along Retracted -> Deployed,
\* Deployed -> Targeting, Deployed -> Emergency, Targeting -> Retracted and
\* Emergency -> Retracted.
C26_NozzleFollowsEdges ==
    [][fire'.nozzle_position # fire.nozzle_position
          => <<fire.nozzle_position, fire'.nozzle_position>> \in NozzleEdges]_vars

\* C27: when monitor_and_respond assesses Low risk while a discharge is active
\* it commands the valve closed and then the nozzle retracted, RetractDelay
\* seconds pass, discharge_active and manual_override_active end false, the
\* nozzle ends Retracted and exactly one event, a FireSuppressed one, is
\* appended.  stop_discharge when no discharge is active returns Ok, commands
\* nothing, changes nothing and logs nothing.
C27_LowRiskStopsDischarge ==
    [][/\ (/\ call'.op = "monitor_and_respond"
           /\ call'.result = "Ok"
           /\ assess_fire_risk(fire') = "Low"
           /\ fire.discharge_active)
            => /\ commands' = <<"valve.close", "nozzle.retract">>
               /\ ~valve_open'
               /\ ~fire'.discharge_active
               /\ ~fire'.manual_override_active
               /\ fire'.nozzle_position = "Retracted"
               /\ nozzle_hw' = "retract"
               /\ now' = now + RetractDelay
               /\ EventsAdded(1)
               /\ event_history'[Len(event_history')].event_type = "FireSuppressed"
       /\ (call'.op = "stop_discharge" /\ ~fire.discharge_active)
            => /\ call'.result = "Ok"
               /\ commands' = <<>>
               /\ UNCHANGED <<fire, event_history, valve_open, nozzle_hw, timers, now>>]_vars

\* monitor_and_respond has just read a cool, smoke-free room during a
\* discharge started at second 0 and has stopped it.
C27_Witness ==
    /\ call.op = "monitor_and_respond"
    /\ call.result = "Ok"
    /\ assess_fire_risk(fire) = "Low"
    /\ commands = <<"valve.close", "nozzle.retract">>
    /\ now = RetractDelay
    /\ fire.total_activations = 1
    /\ fire.last_activation = Some(0)
    /\ ~fire.discharge_active
    /\ ~valve_open
    /\ Len(event_history) = 2
    /\ event_history[1].event_type = "SystemActivated"
    /\ event_history[2].event_type = "FireSuppressed"

\* C28: when monitor_and_respond assesses Medium risk it only prepares: from
\* Retracted the nozzle becomes Deployed and exactly one event, a
\* SystemActivated one, is appended; from any other position the nozzle is
\* unchanged, nothing is commanded and nothing is logged.  In both cases
\* discharge_active, last_activation, total_activations, the valve and the
\* auto-stop tasks are unchanged.
C28_MediumRiskOnlyPrepares ==
    [][(/\ call'.op = "monitor_and_respond"
        /\ call'.result = "Ok"
        /\ assess_fire_risk(fire') = "Medium")
          => /\ IF fire.nozzle_position = "Retracted"
                THEN /\ fire'.nozzle_position = "Deployed"
                     /\ commands' = <<"nozzle.deploy">>
                     /\ EventsAdded(1)
                     /\ event_history'[Len(event_history')].event_type = "SystemActivated"
                ELSE /\ fire'.nozzle_position = fire.nozzle_position
                     /\ commands' = <<>>
                     /\ UNCHANGED <<event_history, nozzle_hw>>
             /\ fire'.discharge_active = fire.discharge_active
             /\ fire'.last_activation = fire.last_activation
             /\ fire'.total_activations = fire.total_activations
             /\ fire'.manual_override_active = fire.manual_override_active
             /\ UNCHANGED <<valve_open, timers, now>>]_vars

\* Medium risk is assessed during a discharge, the nozzle Targeting: the call
\* leaves the single event of the activation and the nozzle as they were.
C28_Witness ==
    /\ call.op = "monitor_and_respond"
    /\ call.result = "Ok"
    /\ assess_fire_risk(fire) = "Medium"
    /\ commands = <<>>
    /\ fire.nozzle_position = "Targeting"
    /\ fire.discharge_active
    /\ fire.total_activations = 1
    /\ Len(event_history) = 1

\* Medium risk is assessed on a retracted nozzle: it is deployed, with one
\* event and no discharge.
C28_WitnessDeployed ==
    /\ call.op = "monitor_and_respond"
    /\ assess_fire_risk(fire) = "Medium"
    /\ commands = <<"nozzle.deploy">>
    /\ fire.nozzle_position = "Deployed"
    /\ ~fire.discharge_active
    /\ fire.total_activations = 0
    /\ ~valve_open
    /\ Len(event_history) = 1

----------------------------------------------------------------------------
(* Claims about the fire-suppression system with failing sensors, under     *)
(* SpecFireFaulty                                                           *)

\* C18: a monitor_and_respond call in which a sensor read fails returns Ok.
C18_SensorFailureIsAbsorbed ==
    (call.op = "monitor_and_respond" /\ call.flag) => call.result = "Ok"

----------------------------------------------------------------------------
(* Claims about assess_fire_risk, under SpecRisk *)

\* The risk 0.6 * temp_factor + 0.4 * smoke in thousandths, temp_factor being
\* (temperature - 20) / 50 above the threshold and 0 otherwise.
StatedRisk ==
    (IF fire.current_temperature > risk_config.auto_activation_temp
     THEN 12 * (fire.current_temperature - 20) ELSE 0) + 4 * fire.smoke_level

\* C19: the severity assess_fire_risk returns is determined by temperature,
\* smoke level and threshold: Critical for a risk of at least 0.8, High from
\* 0.6, Medium from 0.3, Low below; temperature 70 with smoke 0.9 and threshold
\* 60 is Critical; and the call changes nothing of the system.
C19_SeverityBands ==
    /\ [](call.op = "assess_fire_risk" =>
            /\ call.text = "Critical" <=> StatedRisk >= 800
            /\ call.text = "High" <=> (600 <= StatedRisk /\ StatedRisk < 800)
            /\ call.text = "Medium" <=> (300 <= StatedRisk /\ StatedRisk < 600)
            /\ call.text = "Low" <=> StatedRisk < 300
            /\ (fire.current_temperature = 70 /\ fire.smoke_level = 90
                  /\ risk_config.auto_activation_temp = 60) => call.text = "Critical")
    /\ [][call'.op = "assess_fire_risk" =>
            UNCHANGED <<fire, event_history, valve_open, nozzle_hw, timers, risk_config>>]_vars

\* Temperature 70 with smoke 0.5 was assessed: a risk of exactly 0.8, Critical.
C19_Witness ==
    /\ call.op = "assess_fire_risk"
    /\ fire.current_temperature = 70
    /\ fire.smoke_level = 50
    /\ call.level = 800
    /\ call.text = "Critical"

\* C20: with the temperature above the threshold the temperature factor is not
\* negative: the risk score is at least 0.4 * smoke.
C20_TempFactorNeverNegative ==
    (call.op = "assess_fire_risk"
        /\ fire.current_temperature > risk_config.auto_activation_temp)
      => call.level >= 4 * fire.smoke_level

====
